---- MODULE Spec2Model ----
(***************************************************************************)
(* A model of runtime/src/Common/PageAllocator.h: PageAllocator (one slab  *)
(* allocator per slot size, pages of uniform slots with an intrusive free  *)
(* list, a doubly linked list of the pages that have a free slot) and      *)
(* AggregateAllocator (one PageAllocator per size class and the page       *)
(* pool's region path for oversized requests).                             *)
(*                                                                         *)
(* Addresses are integers.  Page number i lies at i * ALLOC_PAGE_SIZE.     *)
(* The payload of a page is kept in mem, one entry per 8 byte word: NULL   *)
(* for a word of zero bytes, DATA for a word holding bytes that are not a  *)
(* pointer the allocator wrote, or the address a free-list link holds.     *)
(* A size_t byte count is the record [hi, w, r] that stands for            *)
(* hi * 2^32 + 8 * w + r, so that the 32 bit arithmetic of the dispatcher  *)
(* is exact although TLC's integers are 32 bit themselves.               *)
(***************************************************************************)
EXTENDS Integers, FiniteSets, Sequences, TLC

\* ------------------------------------------------------------- bounds
\* threads calling into the allocators
NumThreads == 2
\* blocks the threads may hold or be acquiring at one time, all together
MaxLive == 2
\* pages the page pool has to hand out
MaxPages == 3
\* regions the page pool has to hand out
MaxRegions == 1
\* log2 of the page size
LogPageSize == 6
\* size classes of the dispatcher (MAX_ALLOCATORS in the source)
NumClasses == 3
\* blocks held or being acquired at one time by the single-threaded driver
MaxLiveSeq == 5
\* rounds of each thread in the stress scenario
MaxRounds == 2

\* ---------------------------------------------------------- constants
NULL == 0
\* a word (or pointer value) that is neither zero nor written by the allocator
DATA == -1
\* the dispatcher's answer for a request it hands to the page pool
REGION == -1
\* no allocator owns the page
NOBODY == -1

LOG_ALLOC_ALIGNMENT == 3
ALLOC_ALIGNMENT == 2^LOG_ALLOC_ALIGNMENT
ALLOC_PAGE_SIZE == 2^LogPageSize
\* sizeof(Page) on an LP64 target: three pointers and two uint16_t, padded
SizeofPage == 32
\* number of 8 byte words a uint32_t counts: 2^32 / 8
Words32 == 2^29
Uint16 == 65536

Threads == 1..NumThreads
Classes == 0..(NumClasses - 1)
Pages == {i * ALLOC_PAGE_SIZE : i \in 1..MaxPages}
Regions == {(MaxPages + i) * ALLOC_PAGE_SIZE : i \in 1..MaxRegions}

\* ------------------------------------------------- arithmetic helpers
AlignUp(x, n) == ((x + n - 1) \div n) * n
AlignDown(x, n) == (x \div n) * n
AlignUp16(x, n) == AlignUp(x, n) % Uint16

\* the size-class table: class i serves blocks of RUNTYPE_RUN_IDX_TO_SIZE(i) bytes
RUNTYPE_RUN_IDX_TO_SIZE(i) == 8 * (i + 1)
RUN_ALLOC_LARGE_SIZE == RUNTYPE_RUN_IDX_TO_SIZE(NumClasses - 1)
\* the smallest class that holds sz bytes, for 0 <= sz <= RUN_ALLOC_LARGE_SIZE
RUNTYPE_SIZE_TO_RUN_IDX(sz) ==
    CHOOSE i \in Classes :
        /\ RUNTYPE_RUN_IDX_TO_SIZE(i) >= sz
        /\ \A j \in Classes : j < i => RUNTYPE_RUN_IDX_TO_SIZE(j) < sz

\* size_t values
SizeT(hi, w, r) == [hi |-> hi, w |-> w, r |-> r]
Sz(n) == SizeT(0, n \div 8, n % 8)

\* PageAllocator::Init(size): the two size fields of allocator a
slotSize(a) == RUNTYPE_RUN_IDX_TO_SIZE(a) % Uint16
slotAlignment(a) == AlignUp16(slotSize(a), ALLOC_ALIGNMENT)

\* ------------------------------------------------------------- state
VARIABLES
    pageHdr,      \* pageHdr[p]: the Page header at address p
    mem,          \* mem[a]: the payload word at address a
    nonFull,      \* nonFull[a]: PageAllocator a's list head
    totalPages,   \* totalPages[a]: PageAllocator a's page count
    allocLock,    \* allocLock[a]: the thread holding a's mutex, or 0
    pagesOut,     \* page pool: the pages handed out and not returned
    regionsOut,   \* page pool: the regions handed out and not returned
    poolMisuse,   \* page pool: a page or region was returned that was not out
    poolFill,     \* page pool: what the words of a page it hands out hold
    pageOwner,    \* page pool's caller: the allocator that acquired the page
    pc,           \* pc[t]: where thread t stands, with the call's locals
    held,         \* the blocks handed to callers and not yet given back
    phase,        \* the test driver's scenario state
    rounds        \* rounds[t]: completed rounds of thread t (stress scenario)

vars == <<pageHdr, mem, nonFull, totalPages, allocLock, pagesOut, regionsOut,
          poolMisuse, poolFill, pageOwner, pc, held, phase, rounds>>

poolVars == <<pagesOut, regionsOut, poolMisuse, pageOwner>>
envVars == <<phase, rounds, poolFill>>
allocVars == <<pageHdr, nonFull, totalPages>>

Idle == [st |-> "idle", size |-> Sz(0), idx |-> REGION, page |-> NULL, ptr |-> NULL]

\* the payload words of the pages
WordAddrs ==
    {p + off : p \in Pages,
               off \in {o \in 0..(ALLOC_PAGE_SIZE - 1) :
                            o >= SizeofPage /\ o % 8 = 0}}

\* a freshly constructed Page object
NoPage == [header |-> NULL, prev |-> NULL, next |-> NULL, total |-> 0, free |-> 0]

Load(m, a) == IF a \in DOMAIN m THEN m[a] ELSE DATA
Store(m, a, v) == IF a \in DOMAIN m THEN [m EXCEPT ![a] = v] ELSE m

\* ---------------------------------------------------------------- Page
\* mutant of Page::Allocate: the head is handed out but stays the head
Page_AllocateNoPop(hdr, m) ==
    IF hdr.header # NULL
    THEN [result |-> hdr.header,
          hdr |-> [hdr EXCEPT !.free = (hdr.free + Uint16 - 1) % Uint16]]
    ELSE [result |-> NULL, hdr |-> hdr]

\* Page::Allocate: pop the free-list head
Page_Allocate(hdr, m) ==
    IF hdr.header # NULL
    THEN [result |-> hdr.header,
          hdr |-> [hdr EXCEPT !.header = Load(m, hdr.header),
                              !.free = (hdr.free + Uint16 - 1) % Uint16]]
    ELSE [result |-> NULL, hdr |-> hdr]

\* mutant of Page::Deallocate: the slot is pushed but not counted
Page_DeallocateNoCount(hdr, m, slot) ==
    [hdr |-> [hdr EXCEPT !.header = slot], mem |-> Store(m, slot, hdr.header)]

\* Page::Deallocate: push the slot on the free list
Page_Deallocate(hdr, m, slot) ==
    [hdr |-> [hdr EXCEPT !.header = slot, !.free = (hdr.free + 1) % Uint16],
     mem |-> Store(m, slot, hdr.header)]

\* mutant of Page::Available: off by one, the last free slot does not count
AvailableButOne(hdr) == hdr.free > 1

Available(hdr) == hdr.free # 0

\* mutant of Page::Empty: Available's test in its place
EmptyAnyFree(hdr) == hdr.free # 0

\* mutant of Page::Empty: off by one, a page with one live slot counts as idle
EmptyEarly(hdr) == hdr.free + 1 >= hdr.total

Empty(hdr) == hdr.free = hdr.total

\* ------------------------------------------------ PageAllocator helpers
\* mutant of AddToList: the old head's prev is not set
AddToListNoBack(list, hdrs, page) ==
    [head |-> page, hdrs |-> [hdrs EXCEPT ![page].next = list]]

\* AddToList(list, page): push the page at the head of the list
AddToList(list, hdrs, page) ==
    LET h1 == IF list # NULL THEN [hdrs EXCEPT ![list].prev = page] ELSE hdrs
    IN [head |-> page, hdrs |-> [h1 EXCEPT ![page].next = list]]

\* mutant of RemoveFromList: the head is not moved on when the head page leaves
RemoveFromListKeepHead(head, hdrs, page) ==
    LET prev == hdrs[page].prev
        next == hdrs[page].next
        h0 == IF prev # NULL THEN [hdrs EXCEPT ![prev].next = next] ELSE hdrs
        h1 == IF next # NULL THEN [h0 EXCEPT ![next].prev = prev] ELSE h0
    IN [head |-> head,
        hdrs |-> [h1 EXCEPT ![page].prev = NULL, ![page].next = NULL]]

\* RemoveFromList(head, page): unlink the page
RemoveFromList(head, hdrs, page) ==
    LET prev == hdrs[page].prev
        next == hdrs[page].next
        h1 == IF page = head
              THEN IF next # NULL THEN [hdrs EXCEPT ![next].prev = NULL] ELSE hdrs
              ELSE LET h0 == IF prev # NULL
                             THEN [hdrs EXCEPT ![prev].next = next] ELSE hdrs
                   IN IF next # NULL THEN [h0 EXCEPT ![next].prev = prev] ELSE h0
    IN [head |-> IF page = head THEN next ELSE head,
        hdrs |-> [h1 EXCEPT ![page].prev = NULL, ![page].next = NULL]]

\* mutant of InitPage's offset: a packed header (three pointers, two
\* uint16_t) that is not rounded up
InitPageOffsetPacked == 3 * 8 + 2 * 2

\* the header size InitPage rounds up to the allocation alignment
InitPageOffset == AlignUp(SizeofPage, ALLOC_ALIGNMENT)

\* mutant of InitPage's pointer step: the allocation alignment, not the stride
InitPageStepAlignment(a) == ALLOC_ALIGNMENT

\* the pointer step of InitPage's loop
InitPageStep(a) == slotAlignment(a)

\* mutant of the loop's exit test: a slot that ends on the last byte of the
\* page is left out
InitPageBreakEarly(block, end, step) == block + step - 1 >= end

\* the exit test of InitPage's loop, block being the slot after the step
InitPageBreak(block, end, step) == block + step - 1 > end

\* InitPage's loop: link every further slot that ends inside the page
RECURSIVE InitPageLoop(_, _, _, _, _)
InitPageLoop(m, prevSlot, block, end, step) ==
    LET nb == block + step
    IN IF InitPageBreak(nb, end, step)
       THEN m
       ELSE InitPageLoop(Store(m, prevSlot, nb), nb, nb, end, step)

\* InitPage's count of slots, stored in free and total
InitPageCount(a) == ((ALLOC_PAGE_SIZE - InitPageOffset) \div slotAlignment(a)) % Uint16

\* InitPage(page) for allocator a: the header and the chained free list
InitPage(hdrs, m, page, a) ==
    LET block == page + InitPageOffset
    IN [hdrs |-> [hdrs EXCEPT ![page] =
                      [header |-> block, prev |-> NULL, next |-> NULL,
                       total |-> InitPageCount(a), free |-> InitPageCount(a)]],
        mem |-> InitPageLoop(m, block, block, page + ALLOC_PAGE_SIZE - 1,
                             InitPageStep(a))]

\* mutant of the memset_s call: only the word of the free-list link is cleared
MemsetLinkOnly(a, result) == {result}

\* the bytes memset_s clears in Allocate, as the words they fill
MemsetWords(a, result) == {result + 8 * k : k \in 0..((slotSize(a) \div 8) - 1)}

Memset(m, a, result) ==
    [x \in DOMAIN m |-> IF x \in MemsetWords(a, result) THEN NULL ELSE m[x]]

\* --------------------------------------------------- AggregateAllocator
\* static_cast<uint32_t>(size)
Uint32Of(size) == [w |-> size.w, r |-> size.r]

\* AlignUp(x, ALLOC_ALIGNMENT) on uint32_t, in 8 byte words
AlignUp32Words(x) == (x.w + (IF x.r > 0 THEN 1 ELSE 0)) % Words32

\* the class index AggregateAllocator::Allocate picks, or REGION
AggAllocateRoute(size) ==
    LET alignedWords == AlignUp32Words(Uint32Of(size))
    IN IF alignedWords <= RUN_ALLOC_LARGE_SIZE \div 8
       THEN RUNTYPE_SIZE_TO_RUN_IDX(8 * alignedWords)
       ELSE REGION

\* mutant of Deallocate's routing: the size is rounded down, not up
AggDeallocateRouteDown(size) ==
    LET alignedWords == Uint32Of(size).w
    IN IF alignedWords <= RUN_ALLOC_LARGE_SIZE \div 8
       THEN RUNTYPE_SIZE_TO_RUN_IDX(8 * alignedWords)
       ELSE REGION

\* the class index AggregateAllocator::Deallocate picks, or REGION
AggDeallocateRoute(size) ==
    LET alignedWords == AlignUp32Words(Uint32Of(size))
    IN IF alignedWords <= RUN_ALLOC_LARGE_SIZE \div 8
       THEN RUNTYPE_SIZE_TO_RUN_IDX(8 * alignedWords)
       ELSE REGION

\* PagePool::ReturnPage(page): what the page holds from now on is the pool's
\* business; the next GetPage hands it out with poolFill in every word
Scrub(m, page) ==
    [x \in DOMAIN m |-> IF AlignDown(x, ALLOC_PAGE_SIZE) = page THEN poolFill ELSE m[x]]

\* PagePool::GetPage(): the page the pool hands out next, the lowest free one
GetPage(out) == {q \in Pages \ out : \A o \in Pages \ out : q <= o}

\* ------------------------------------------------------------ actions
InAlloc(t) == pc[t].st \in {"alloc_take", "alloc_memset", "got"}

\* blocks held or being acquired
Outstanding == Cardinality(held) + Cardinality({t \in Threads : InAlloc(t)})

\* mutant of the lock guard: the mutex is taken without waiting for it
AcquireNoWait(t, a) == allocLock' = [allocLock EXCEPT ![a] = t]

\* std::lock_guard<std::mutex> guard(allocLock)
Acquire(t, a) ==
    /\ allocLock[a] = 0
    /\ allocLock' = [allocLock EXCEPT ![a] = t]

\* mutant of the guard's end: the mutex stays locked
ReleaseForget(t, a) == UNCHANGED allocLock

\* the guard leaves scope
Release(t, a) == allocLock' = [allocLock EXCEPT ![a] = IF @ = t THEN 0 ELSE @]

\* mutant of Allocate's first half: the new page is not counted
AllocEnterNoCount(t, a, size) ==
    /\ Acquire(t, a)
    /\ IF nonFull[a] = NULL
       THEN \E cur \in GetPage(pagesOut) :
                LET i == InitPage(pageHdr, mem, cur, a)
                IN /\ InitPageCount(a) >= 1
                   /\ pagesOut' = pagesOut \cup {cur}
                   /\ pageOwner' = [pageOwner EXCEPT ![cur] = a]
                   /\ pageHdr' = i.hdrs
                   /\ mem' = i.mem
                   /\ nonFull' = [nonFull EXCEPT ![a] = cur]
                   /\ UNCHANGED totalPages
       ELSE UNCHANGED <<pagesOut, pageOwner, pageHdr, mem, nonFull, totalPages>>
    /\ pc' = [pc EXCEPT ![t] = [Idle EXCEPT !.st = "alloc_take", !.size = size,
                                            !.idx = a]]
    /\ UNCHANGED <<regionsOut, poolMisuse, held>>

\* PageAllocator::Allocate, first half: take the mutex and, with an empty
\* list, get and set up a page
AllocEnter(t, a, size) ==
    /\ Acquire(t, a)
    /\ IF nonFull[a] = NULL
       THEN \E cur \in GetPage(pagesOut) :
                LET i == InitPage(pageHdr, mem, cur, a)
                IN /\ InitPageCount(a) >= 1
                   /\ pagesOut' = pagesOut \cup {cur}
                   /\ pageOwner' = [pageOwner EXCEPT ![cur] = a]
                   /\ pageHdr' = i.hdrs
                   /\ mem' = i.mem
                   /\ nonFull' = [nonFull EXCEPT ![a] = cur]
                   /\ totalPages' = [totalPages EXCEPT ![a] = @ + 1]
       ELSE UNCHANGED <<pagesOut, pageOwner, pageHdr, mem, nonFull, totalPages>>
    /\ pc' = [pc EXCEPT ![t] = [Idle EXCEPT !.st = "alloc_take", !.size = size,
                                            !.idx = a]]
    /\ UNCHANGED <<regionsOut, poolMisuse, held>>

\* AggregateAllocator::Allocate(size): the page pool's region path for an
\* oversized request, else PageAllocator::Allocate of the class that fits
AggAllocate(t, size) ==
    /\ pc[t].st = "idle"
    /\ LET idx == AggAllocateRoute(size)
       IN IF idx = REGION
          THEN /\ \E r \in Regions \ regionsOut :
                    /\ regionsOut' = regionsOut \cup {r}
                    /\ held' = held \cup {[ptr |-> r, size |-> size]}
               /\ UNCHANGED <<pc, pagesOut, poolMisuse, pageOwner, allocVars, mem,
                              allocLock>>
          ELSE AllocEnter(t, idx, size)

\* PageAllocator::Allocate, second half: take a slot of the head page, unlink
\* the page when that was its last one, release the mutex
AllocTake(t) ==
    /\ pc[t].st = "alloc_take"
    /\ LET a == pc[t].idx
           pg == nonFull[a]
       IN /\ pg \in Pages
          /\ LET r == Page_Allocate(pageHdr[pg], mem)
                 h1 == [pageHdr EXCEPT ![pg] = r.hdr]
                 l == IF ~Available(r.hdr)
                      THEN RemoveFromList(nonFull[a], h1, pg)
                      ELSE [head |-> nonFull[a], hdrs |-> h1]
             IN /\ pageHdr' = l.hdrs
                /\ nonFull' = [nonFull EXCEPT ![a] = l.head]
                /\ pc' = [pc EXCEPT ![t].st = "alloc_memset", ![t].ptr = r.result,
                                    ![t].page = pg]
          /\ Release(t, a)
    /\ UNCHANGED <<mem, totalPages, poolVars, held, envVars>>

\* PageAllocator::Allocate, outside the mutex: clear the block and return it
AllocMemset(t) ==
    /\ pc[t].st = "alloc_memset"
    /\ mem' = IF pc[t].ptr # NULL THEN Memset(mem, pc[t].idx, pc[t].ptr) ELSE mem
    /\ pc' = [pc EXCEPT ![t].st = "got"]
    /\ UNCHANGED <<allocVars, allocLock, poolVars, held, envVars>>

\* PageAllocator::Deallocate(slot), first half: find the page, take the
\* mutex; a page without a free slot joins the list
DeallocEnter(t, a, slot, size) ==
    LET cur == AlignDown(slot, ALLOC_PAGE_SIZE)
    IN /\ cur \in Pages
       /\ Acquire(t, a)
       /\ LET l == IF ~Available(pageHdr[cur])
                   THEN AddToList(nonFull[a], pageHdr, cur)
                   ELSE [head |-> nonFull[a], hdrs |-> pageHdr]
          IN /\ pageHdr' = l.hdrs
             /\ nonFull' = [nonFull EXCEPT ![a] = l.head]
       /\ pc' = [pc EXCEPT ![t] = [st |-> "dealloc_put", size |-> size, idx |-> a,
                                   page |-> cur, ptr |-> slot]]
       /\ UNCHANGED <<mem, totalPages, poolVars>>

\* AggregateAllocator::Deallocate(p, size) of a block a caller holds: the
\* page pool's region path or PageAllocator::Deallocate of the class
AggDeallocate(t, b) ==
    /\ pc[t].st = "idle"
    /\ b \in held
    /\ b.ptr # NULL
    /\ held' = held \ {b}
    /\ LET idx == AggDeallocateRoute(b.size)
       IN IF idx = REGION
          THEN /\ regionsOut' = regionsOut \ {b.ptr}
               /\ poolMisuse' = (poolMisuse \/ b.ptr \notin regionsOut)
               /\ UNCHANGED <<pc, pagesOut, pageOwner, allocVars, mem, allocLock>>
          ELSE DeallocEnter(t, idx, b.ptr, b.size)

\* PageAllocator::Deallocate, second half: push the slot; a page whose slots
\* are all free leaves the list and goes back to the page pool; release the
\* mutex
DeallocPut(t) ==
    /\ pc[t].st = "dealloc_put"
    /\ LET a == pc[t].idx
           cur == pc[t].page
           d == Page_Deallocate(pageHdr[cur], mem, pc[t].ptr)
           h1 == [pageHdr EXCEPT ![cur] = d.hdr]
       IN /\ IF Empty(d.hdr)
             THEN LET l == RemoveFromList(nonFull[a], h1, cur)
                  IN /\ pageHdr' = [l.hdrs EXCEPT ![cur] = NoPage]
                     /\ mem' = Scrub(d.mem, cur)
                     /\ nonFull' = [nonFull EXCEPT ![a] = l.head]
                     /\ pagesOut' = pagesOut \ {cur}
                     /\ poolMisuse' = (poolMisuse \/ cur \notin pagesOut)
                     /\ pageOwner' = [pageOwner EXCEPT ![cur] = NOBODY]
                     /\ totalPages' = [totalPages EXCEPT ![a] = @ - 1]
             ELSE /\ pageHdr' = h1
                  /\ mem' = d.mem
                  /\ UNCHANGED <<nonFull, pagesOut, poolMisuse, pageOwner, totalPages>>
          /\ Release(t, a)
    /\ pc' = [pc EXCEPT ![t] = Idle]
    /\ UNCHANGED <<regionsOut, held, envVars>>

\* the words of its block the caller stores into: those of the size bytes it
\* asked for that lie in the slot
CallerWords(a, ptr, size) ==
    {x \in MemsetWords(a, ptr) :
        \/ size.hi > 0
        \/ (x - ptr) \div 8 < size.w
        \/ (x - ptr) \div 8 = size.w /\ size.r > 0}

\* the caller fills the block it was just given with its data; from then on
\* any thread may give the block back
CallerWrite(t) ==
    /\ pc[t].st = "got"
    /\ mem' = [x \in DOMAIN mem |->
                  IF x \in CallerWords(pc[t].idx, pc[t].ptr, pc[t].size)
                  THEN DATA ELSE mem[x]]
    /\ held' = held \cup {[ptr |-> pc[t].ptr, size |-> pc[t].size]}
    /\ pc' = [pc EXCEPT ![t] = Idle]
    /\ UNCHANGED <<allocVars, allocLock, poolVars>>

\* ------------------------------------------------------ specifications
InitCommon ==
    /\ pageHdr = [p \in Pages |-> NoPage]
    /\ poolFill \in {NULL, DATA}
    /\ mem = [x \in WordAddrs |-> poolFill]
    /\ nonFull = [a \in Classes |-> NULL]
    /\ totalPages = [a \in Classes |-> 0]
    /\ allocLock = [a \in Classes |-> 0]
    /\ pagesOut = {}
    /\ regionsOut = {}
    /\ poolMisuse = FALSE
    /\ pageOwner = [p \in Pages |-> NOBODY]
    /\ pc = [t \in Threads |-> Idle]
    /\ held = {}
    /\ rounds = [t \in Threads |-> 0]

\* the steps inside a call and the caller's first use of its block
Internal(t) ==
    \/ AllocTake(t)
    \/ AllocMemset(t)
    \/ CallerWrite(t) /\ UNCHANGED envVars
    \/ DeallocPut(t)

\* --- Spec: NumThreads threads allocate and give back blocks of two classes
\* and oversized blocks, in any interleaving
ReqSizes == {Sz(13), Sz(RUN_ALLOC_LARGE_SIZE), Sz(RUN_ALLOC_LARGE_SIZE + 1)}

Init ==
    /\ InitCommon
    /\ phase = [mode |-> "free"]

Next ==
    \/ \E t \in Threads, s \in ReqSizes :
           Outstanding < MaxLive /\ AggAllocate(t, s) /\ UNCHANGED envVars
    \/ \E t \in Threads, b \in held :
           AggDeallocate(t, b) /\ UNCHANGED envVars
    \/ \E t \in Threads : Internal(t)

Spec == Init /\ [][Next]_vars

\* --- SpecSeq: one thread, any sequence of calls on the allocator of one
\* class, more blocks at a time
SeqSizes == {Sz(8), Sz(13), Sz(RUN_ALLOC_LARGE_SIZE)}

InitSeq ==
    /\ InitCommon
    /\ \E s \in SeqSizes : phase = [mode |-> "seq", size |-> s]

NextSeq ==
    \/ Outstanding < MaxLiveSeq /\ AggAllocate(1, phase.size) /\ UNCHANGED envVars
    \/ \E b \in held : AggDeallocate(1, b) /\ UNCHANGED envVars
    \/ Internal(1)

SpecSeq == InitSeq /\ [][NextSeq]_vars

\* --- SpecRoundTrip: one thread allocates n blocks of one size, then gives
\* all of them back in any order
InitRoundTrip ==
    /\ InitCommon
    /\ \E s \in SeqSizes : phase = [mode |-> "alloc", size |-> s, n |-> 0, pages |-> 0]

RoundTripAlloc ==
    /\ phase.mode = "alloc"
    /\ Outstanding < MaxLiveSeq
    /\ AggAllocate(1, phase.size)
    /\ phase' = [phase EXCEPT !.n = @ + 1]
    /\ UNCHANGED <<rounds, poolFill>>

RoundTripTurn ==
    /\ phase.mode = "alloc"
    /\ pc[1].st = "idle"
    /\ phase' = [phase EXCEPT !.mode = "dealloc", !.pages = Cardinality(pagesOut)]
    /\ UNCHANGED <<allocVars, mem, allocLock, poolVars, pc, held, rounds, poolFill>>

RoundTripDealloc ==
    /\ phase.mode = "dealloc"
    /\ \E b \in held : AggDeallocate(1, b)
    /\ UNCHANGED envVars

NextRoundTrip ==
    \/ RoundTripAlloc
    \/ RoundTripTurn
    \/ RoundTripDealloc
    \/ Internal(1)

SpecRoundTrip == InitRoundTrip /\ [][NextRoundTrip]_vars

\* --- SpecStress: every thread allocates a block of the one size and gives
\* it back, MaxRounds times
StressSizes == {Sz(13), Sz(RUN_ALLOC_LARGE_SIZE)}

InitStress ==
    /\ InitCommon
    /\ \E s \in StressSizes :
           phase = [mode |-> "stress", size |-> s, own |-> [t \in Threads |-> NULL]]

StressAlloc(t) ==
    /\ rounds[t] < MaxRounds
    /\ phase.own[t] = NULL
    /\ AggAllocate(t, phase.size)
    /\ UNCHANGED envVars

StressGot(t) ==
    /\ CallerWrite(t)
    /\ phase' = [phase EXCEPT !.own[t] = pc[t].ptr]
    /\ UNCHANGED <<rounds, poolFill>>

StressDealloc(t) ==
    /\ phase.own[t] # NULL
    /\ AggDeallocate(t, [ptr |-> phase.own[t], size |-> phase.size])
    /\ phase' = [phase EXCEPT !.own[t] = NULL]
    /\ rounds' = [rounds EXCEPT ![t] = @ + 1]
    /\ UNCHANGED poolFill

NextStress ==
    \E t \in Threads :
        \/ StressAlloc(t)
        \/ AllocTake(t)
        \/ AllocMemset(t)
        \/ StressGot(t)
        \/ StressDealloc(t)
        \/ DeallocPut(t)

SpecStress == InitStress /\ [][NextStress]_vars

\* --- SpecRoute: one thread asks for one block at a time, of any size
WideSizes ==
    {SizeT(hi, w, r) : hi \in 0..1,
                       w \in (0..((RUN_ALLOC_LARGE_SIZE \div 8) + 1)) \cup {Words32 - 1},
                       r \in 0..7}

InitRoute ==
    /\ InitCommon
    /\ phase = [mode |-> "route"]

NextRoute ==
    \/ \E s \in WideSizes :
           Outstanding < 1 /\ AggAllocate(1, s) /\ UNCHANGED envVars
    \/ \E b \in held : AggDeallocate(1, b) /\ UNCHANGED envVars
    \/ Internal(1)

SpecRoute == InitRoute /\ [][NextRoute]_vars

\* --- SpecFail: one thread asks for more blocks at a time than the page pool
\* has pages and regions for, so that the pool runs out and fails
Fatal == \E t \in Threads : pc[t].st = "fatal"

\* PageAllocator::Allocate when CreatePage() yields nullptr: the code does not
\* test the pointer, InitPage(*cur) writes through it, which is undefined
\* behaviour; the build either faults there (the process dies), or runs on
\* with nonFull = cur = nullptr, ++totalPages, and a null result
AllocEnterFail(t, a, size) ==
    /\ allocLock[a] = 0
    /\ nonFull[a] = NULL
    /\ GetPage(pagesOut) = {}
    /\ \/ /\ pc' = [pc EXCEPT ![t] = [Idle EXCEPT !.st = "fatal", !.size = size,
                                                  !.idx = a]]
          /\ UNCHANGED totalPages
       \/ /\ pc' = [pc EXCEPT ![t] = [Idle EXCEPT !.st = "got", !.size = size,
                                                  !.idx = a]]
          /\ totalPages' = [totalPages EXCEPT ![a] = @ + 1]
    /\ UNCHANGED <<pageHdr, mem, nonFull, allocLock, poolVars, held>>

\* AggregateAllocator::Allocate(size) when the page pool has nothing to hand
\* out: the region path returns what the pool returned, the class path is
\* PageAllocator::Allocate with a failing CreatePage
AggAllocateFail(t, size) ==
    /\ pc[t].st = "idle"
    /\ LET idx == AggAllocateRoute(size)
       IN IF idx = REGION
          THEN /\ Regions \ regionsOut = {}
               /\ held' = held \cup {[ptr |-> NULL, size |-> size]}
               /\ UNCHANGED <<pc, allocVars, mem, allocLock, poolVars>>
          ELSE AllocEnterFail(t, idx, size)

\* the pool fails at most once in a behaviour: from the first null pointer a
\* caller holds, no further failure is followed
FailSizes == {Sz(RUN_ALLOC_LARGE_SIZE), Sz(RUN_ALLOC_LARGE_SIZE + 1)}

NextFail ==
    /\ ~Fatal
    /\ \/ \E s \in FailSizes :
              /\ Outstanding < MaxPages + MaxRegions + 1
              /\ \/ AggAllocate(1, s)
                 \/ (\A b \in held : b.ptr # NULL) /\ AggAllocateFail(1, s)
              /\ UNCHANGED envVars
       \/ \E b \in held : AggDeallocate(1, b) /\ UNCHANGED envVars
       \/ Internal(1)

SpecFail == Init /\ [][NextFail]_vars

\* --- SpecLive: every thread allocates a block of its size, the same as
\* another thread's or not, and gives it back, again and again; a
\* call that finds the mutex taken waits for it; the page pool always has a
\* page for a call that needs one, and hands out pages that are not zeroed
Waiting(t) == pc[t].st \in {"alloc_wait", "dealloc_wait"}

\* thread t is inside Allocate or Deallocate
InCall(t) ==
    pc[t].st \in {"alloc_wait", "alloc_take", "alloc_memset", "dealloc_wait",
                  "dealloc_put"}

LiveSizes == {Sz(13), Sz(RUN_ALLOC_LARGE_SIZE)}

\* AggregateAllocator::Allocate(size) up to the lock_guard of
\* PageAllocator::Allocate
AllocStart(t, size) ==
    /\ pc[t].st = "idle"
    /\ AggAllocateRoute(size) # REGION
    /\ pc' = [pc EXCEPT ![t] = [Idle EXCEPT !.st = "alloc_wait", !.size = size,
                                            !.idx = AggAllocateRoute(size)]]
    /\ UNCHANGED <<allocVars, mem, allocLock, poolVars, held>>

\* the lock_guard of PageAllocator::Allocate gets the mutex
AllocLock(t) ==
    /\ pc[t].st = "alloc_wait"
    /\ AllocEnter(t, pc[t].idx, pc[t].size)

\* AggregateAllocator::Deallocate(p, size) up to the lock_guard of
\* PageAllocator::Deallocate
DeallocStart(t, b) ==
    /\ pc[t].st = "idle"
    /\ b \in held
    /\ b.ptr # NULL
    /\ AggDeallocateRoute(b.size) # REGION
    /\ held' = held \ {b}
    /\ pc' = [pc EXCEPT ![t] = [st |-> "dealloc_wait", size |-> b.size,
                                idx |-> AggDeallocateRoute(b.size),
                                page |-> AlignDown(b.ptr, ALLOC_PAGE_SIZE),
                                ptr |-> b.ptr]]
    /\ UNCHANGED <<allocVars, mem, allocLock, poolVars>>

\* the lock_guard of PageAllocator::Deallocate gets the mutex
DeallocLock(t) ==
    /\ pc[t].st = "dealloc_wait"
    /\ DeallocEnter(t, pc[t].idx, pc[t].ptr, pc[t].size)
    /\ UNCHANGED held

LiveAlloc(t) ==
    /\ phase.own[t] = NULL
    /\ AllocStart(t, phase.size[t])
    /\ UNCHANGED envVars

LiveGot(t) ==
    /\ CallerWrite(t)
    /\ phase' = [phase EXCEPT !.own[t] = pc[t].ptr]
    /\ UNCHANGED <<rounds, poolFill>>

LiveDealloc(t) ==
    /\ phase.own[t] # NULL
    /\ DeallocStart(t, [ptr |-> phase.own[t], size |-> phase.size[t]])
    /\ phase' = [phase EXCEPT !.own[t] = NULL]
    /\ UNCHANGED <<rounds, poolFill>>

NextLive ==
    \E t \in Threads :
        \/ LiveAlloc(t)
        \/ AllocLock(t) /\ UNCHANGED envVars
        \/ AllocTake(t)
        \/ AllocMemset(t)
        \/ LiveGot(t)
        \/ LiveDealloc(t)
        \/ DeallocLock(t) /\ UNCHANGED envVars
        \/ DeallocPut(t)

\* the mutex is handed out fairly (strong fairness of the two lock steps) and
\* a thread that holds it or has left it keeps running
InitLive ==
    /\ InitCommon
    /\ poolFill = DATA
    /\ \E f \in [Threads -> LiveSizes] :
           phase = [mode |-> "live", size |-> f, own |-> [t \in Threads |-> NULL]]

SpecLive ==
    /\ InitLive
    /\ [][NextLive]_vars
    /\ \A t \in Threads :
          /\ SF_vars(AllocLock(t) /\ UNCHANGED envVars)
          /\ SF_vars(DeallocLock(t) /\ UNCHANGED envVars)
          /\ WF_vars(AllocTake(t) \/ AllocMemset(t) \/ DeallocPut(t))

\* --- SpecInit: InitPage on one page, the loop taken one round at a time,
\* for the page sizes of the model and for a page of more slots than a
\* uint16_t counts; addresses are relative to the page
HugePageSize == 16 * Uint16

InitPageSizes == {ALLOC_PAGE_SIZE, 2 * ALLOC_PAGE_SIZE, HugePageSize}

\* InitPage down to the loop: free, total, header and prevSlot are set
InitInit ==
    /\ InitCommon
    /\ \E size \in InitPageSizes, a \in Classes :
          /\ ((size - InitPageOffset) \div slotAlignment(a)) % Uint16 >= 1
          /\ phase = [mode |-> "init", pageSize |-> size, idx |-> a,
                      free |-> ((size - InitPageOffset) \div slotAlignment(a)) % Uint16,
                      header |-> InitPageOffset, block |-> InitPageOffset,
                      chained |-> 1, done |-> FALSE]

\* one round of the loop that links a slot
InitPageRound ==
    /\ phase.mode = "init" /\ ~phase.done
    /\ LET nb == phase.block + slotAlignment(phase.idx)
       IN /\ ~InitPageBreak(nb, phase.pageSize - 1, slotAlignment(phase.idx))
          /\ phase' = [phase EXCEPT !.block = nb, !.chained = @ + 1]
    /\ UNCHANGED <<allocVars, mem, allocLock, poolVars, pc, held, rounds, poolFill>>

\* the round that leaves the loop
InitPageExit ==
    /\ phase.mode = "init" /\ ~phase.done
    /\ InitPageBreak(phase.block + slotAlignment(phase.idx), phase.pageSize - 1,
                     slotAlignment(phase.idx))
    /\ phase' = [phase EXCEPT !.done = TRUE]
    /\ UNCHANGED <<allocVars, mem, allocLock, poolVars, pc, held, rounds, poolFill>>

NextInit == InitPageRound \/ InitPageExit

SpecInit == InitInit /\ [][NextInit]_vars

\* --- SpecDestroy: as SpecSeq, and between calls the thread may call
\* Destroy() of an allocator
\* PageAllocator::Destroy(): DestroyList(nonFull) is entered, without the mutex
DestroyStart(t, a) ==
    /\ pc[t].st = "idle"
    /\ pc' = [pc EXCEPT ![t] = [Idle EXCEPT !.st = "destroy", !.idx = a]]
    /\ UNCHANGED <<allocVars, mem, allocLock, poolVars, held>>

\* DestroyList: one round of the loop, list = list->next and DestroyPage(*cur)
\* with its CHECK_DETAIL(page.free == page.total), or the end of the loop
DestroyStep(t) ==
    /\ pc[t].st = "destroy"
    /\ LET a == pc[t].idx
           cur == nonFull[a]
       IN IF cur = NULL
          THEN /\ pc' = [pc EXCEPT ![t] = Idle]
               /\ UNCHANGED <<allocVars, mem, poolVars>>
          ELSE /\ nonFull' = [nonFull EXCEPT ![a] = pageHdr[cur].next]
               /\ IF pageHdr[cur].free = pageHdr[cur].total
                  THEN /\ pageHdr' = [pageHdr EXCEPT ![cur] = NoPage]
                       /\ mem' = Scrub(mem, cur)
                       /\ pagesOut' = pagesOut \ {cur}
                       /\ poolMisuse' = (poolMisuse \/ cur \notin pagesOut)
                       /\ pageOwner' = [pageOwner EXCEPT ![cur] = NOBODY]
                       /\ UNCHANGED <<pc, regionsOut, totalPages>>
                  ELSE /\ pc' = [pc EXCEPT ![t].st = "fatal", ![t].page = cur]
                       /\ UNCHANGED <<pageHdr, mem, poolVars, totalPages>>
    /\ UNCHANGED <<allocLock, held>>

NextDestroy ==
    \/ NextSeq
    \/ \E a \in Classes : DestroyStart(1, a) /\ UNCHANGED envVars
    \/ DestroyStep(1) /\ UNCHANGED envVars

SpecDestroy == InitSeq /\ [][NextDestroy]_vars

\* ================================================================ claims
\* the pages reached from a list head along the next links
RECURSIVE Reach(_, _, _)
Reach(p, hdrs, n) ==
    IF p \notin Pages \/ n = 0 THEN {} ELSE {p} \cup Reach(hdrs[p].next, hdrs, n - 1)

ListPages(a) == Reach(nonFull[a], pageHdr, MaxPages)

\* the pages allocator a acquired and has not returned
LivePages(a) == {p \in pagesOut : pageOwner[p] = a}

\* no call stands inside allocator a's critical section
Quiet(a) == allocLock[a] = 0

\* the class a request of the given size belongs to: the smallest that holds
\* the size rounded up to the allocation alignment
ClassOf(size) == RUNTYPE_SIZE_TO_RUN_IDX(8 * (size.w + (IF size.r > 0 THEN 1 ELSE 0)))

\* the request exceeds the largest class
Oversized(size) ==
    \/ size.hi > 0
    \/ size.w + (IF size.r > 0 THEN 1 ELSE 0) > RUN_ALLOC_LARGE_SIZE \div 8

\* C1: after every completed Allocate or Deallocate, a live page is reachable
\* from the nonFull head if and only if its free count is nonzero.
NonFullIffFree ==
    \A a \in Classes :
        Quiet(a) =>
            \A p \in LivePages(a) : (p \in ListPages(a)) <=> (pageHdr[p].free # 0)

\* C1 witness: between calls, a full page off the list beside a listed page
NonFullIffFreeWitness ==
    /\ pc[1].st = "idle"
    /\ \E a \in Classes : \E p, q \in LivePages(a) :
          /\ pageHdr[p].free = 0 /\ p \notin ListPages(a)
          /\ pageHdr[q].free # 0 /\ q \in ListPages(a)

\* the blocks handed out and not given back, as <<who, pointer, class>> with
\* who the thread still inside Allocate, or 0 for a block a caller holds
LiveSlots ==
    {<<0, b.ptr, AggAllocateRoute(b.size)>> :
         b \in {x \in held : AggAllocateRoute(x.size) # REGION}}
    \cup {<<t, pc[t].ptr, pc[t].idx>> :
              t \in {u \in Threads : pc[u].st \in {"alloc_memset", "got"}}}

\* C2: two allocations of one size class that have not been deallocated never
\* denote the same slot or overlapping byte ranges, under any interleaving.
NoLiveOverlap ==
    \A x, y \in LiveSlots :
        (x # y /\ x[3] = y[3]) =>
            \/ x[2] + slotSize(x[3]) <= y[2]
            \/ y[2] + slotSize(y[3]) <= x[2]

\* C2 witness: a block just taken from a page another live block lies on
NoLiveOverlapWitness ==
    \E t \in Threads : \E b \in held :
        /\ pc[t].st = "alloc_memset"
        /\ AggAllocateRoute(b.size) = pc[t].idx
        /\ AlignDown(b.ptr, ALLOC_PAGE_SIZE) = AlignDown(pc[t].ptr, ALLOC_PAGE_SIZE)

\* no header of a page handed out, and no list head, points at page p
Unlinked(p, heads, hdrs, out) ==
    /\ \A a \in Classes : heads[a] # p
    /\ \A q \in out : hdrs[q].prev # p /\ hdrs[q].next # p

\* what C3 asks of every step
ReleaseStepOK ==
    /\ \A p \in Pages :
          (p \in pagesOut /\ p \notin pagesOut') =>
              \E t \in Threads :
                  /\ pc[t].st = "dealloc_put" /\ pc[t].page = p
                  /\ pc'[t].st = "idle"
                  /\ allocLock[pc[t].idx] = t
                  /\ pageHdr[p].free + 1 = pageHdr[p].total
                  /\ Unlinked(p, nonFull', pageHdr', pagesOut')
    /\ \A t \in Threads :
          (/\ pc[t].st = "dealloc_put" /\ pc'[t].st = "idle"
           /\ pageHdr[pc[t].page].free + 1 = pageHdr[pc[t].page].total)
              => pc[t].page \notin pagesOut'
    /\ ~poolMisuse'
    /\ \A t \in Threads :
          (pc[t].st = "alloc_take" /\ pc'[t].st = "alloc_memset") =>
              /\ pc'[t].page \in pagesOut'
              /\ AlignDown(pc'[t].ptr, ALLOC_PAGE_SIZE) = pc'[t].page

\* C3: a page goes back to the page pool exactly in the Deallocate step that
\* brings its free count up to its total, under that allocator's mutex and
\* unlinked from the list; no page is released otherwise or twice, and no
\* Allocate takes a slot from a page that is not handed out.
ReleaseExactlyWhenIdle == [][ReleaseStepOK]_vars

\* C3 witness: a Deallocate about to push the last live slot of a page that
\* has more than one slot, while another page of the allocator is live
ReleaseExactlyWhenIdleWitness ==
    \E t \in Threads :
        /\ pc[t].st = "dealloc_put"
        /\ pageHdr[pc[t].page].free + 1 = pageHdr[pc[t].page].total
        /\ pageHdr[pc[t].page].total > 1
        /\ pc[t].page \in ListPages(pc[t].idx)

\* no allocator has a page
NoResidentPages ==
    /\ \A a \in Classes : totalPages[a] = 0 /\ nonFull[a] = NULL
    /\ pagesOut = {}

\* C4: allocating n slots from an allocator without pages and then giving
\* back exactly those n, in any order, leaves totalPages = 0, an empty nonFull
\* list and every acquired page returned to the page pool.
RoundTripRestores ==
    (phase.mode = "dealloc" /\ held = {} /\ pc[1].st = "idle") => NoResidentPages

\* C4 witness: the end of a round trip of three or more blocks on two or
\* more pages
RoundTripRestoresWitness ==
    /\ phase.mode = "dealloc" /\ held = {} /\ pc[1].st = "idle"
    /\ phase.n >= 3 /\ phase.pages >= 2

\* the slots InitPage made of page p for allocator a
SlotsOf(p, a) ==
    {p + InitPageOffset + k * slotAlignment(a) : k \in 0..(pageHdr[p].total - 1)}

\* the first n slots of the free list that starts at x
RECURSIVE FreeList(_, _)
FreeList(x, n) == IF n = 0 THEN <<>> ELSE <<x>> \o FreeList(Load(mem, x), n - 1)

\* the slots of page p that are handed out
LiveOn(p) == {x[2] : x \in {y \in LiveSlots : AlignDown(y[2], ALLOC_PAGE_SIZE) = p}}

\* the free list of page p holds free slots of p only, each once
FreeListSound(p, a) ==
    LET f == FreeList(pageHdr[p].header, pageHdr[p].free)
    IN /\ pageHdr[p].free <= pageHdr[p].total
       /\ \A i \in 1..Len(f) : f[i] \in SlotsOf(p, a) \ LiveOn(p)
       /\ \A i, j \in 1..Len(f) : i # j => f[i] # f[j]

\* every thread has done its rounds
StressDone == \A t \in Threads : rounds[t] = MaxRounds /\ pc[t].st = "idle"

\* C5: when every thread allocates and gives back a block of one class
\* MaxRounds times, with the allocator's mutex as the only synchronization, no
\* page is resident at the end, and between critical sections every page's
\* free list holds only free slots of that page, each once.
StressClean ==
    /\ StressDone => NoResidentPages
    /\ \A a \in Classes :
           Quiet(a) => \A p \in LivePages(a) : FreeListSound(p, a)

\* C5 witness: all rounds done
StressCleanWitness == StressDone /\ NumThreads >= 2 /\ MaxRounds >= 2

\* what the claims see of allocator a
AllocatorState(a) ==
    <<nonFull[a], totalPages[a], [p \in Pages |-> IF pageOwner[p] = a
                                                  THEN pageHdr[p] ELSE NoPage],
      LivePages(a)>>

\* the call thread t is in before or after the step
CallSize(t) == IF pc[t].st = "idle" THEN pc'[t].size ELSE pc[t].size

\* what C6 asks of every step
FrameStepOK ==
    /\ \A a \in Classes :
          AllocatorState(a)' # AllocatorState(a) =>
              \E t \in Threads :
                  /\ pc'[t] # pc[t]
                  /\ ~Oversized(CallSize(t))
                  /\ ClassOf(CallSize(t)) = a
    /\ \A a, b \in Classes : a # b => ListPages(a) \cap ListPages(b) = {}

\* C6: an Allocate or Deallocate for one size class leaves the nonFull list,
\* the page count and every page header of every other PageAllocator as they
\* were, and no page is on the lists of two allocators.
FrameOtherAllocators == [][FrameStepOK]_vars

\* C6 witness: a Deallocate inside one allocator while another has a page
FrameOtherAllocatorsWitness ==
    \E t \in Threads : \E b \in Classes :
        /\ pc[t].st = "dealloc_put"
        /\ b # pc[t].idx
        /\ LivePages(b) # {}
        /\ LivePages(pc[t].idx) # {}

\* C7: for every byteSize of size_t, AggregateAllocator::Allocate goes to the
\* page pool's region path exactly when byteSize rounded up to the allocation
\* alignment exceeds the largest class size, and otherwise to the
\* PageAllocator of the smallest class that fits; Deallocate with the same
\* byteSize takes the same route.
RouteBySize ==
    /\ \A t \in Threads :
          pc[t].st # "idle" =>
              /\ ~Oversized(pc[t].size)
              /\ pc[t].idx = ClassOf(pc[t].size)
    /\ \A b \in held : (b.ptr \in Regions) <=> Oversized(b.size)

\* the words of the slot of allocator a at ptr
SlotWords(a, ptr) == {x \in WordAddrs : ptr <= x /\ x < ptr + slotSize(a)}

\* thread t stands at the return of PageAllocator::Allocate with a block
Returning(t) == pc[t].st = "got" /\ pc[t].ptr # NULL

\* C8: every block PageAllocator::Allocate returns has all of its slotSize
\* bytes zero at the moment it is handed to the caller, whatever the slot or
\* its page held before.
ZeroFilledAtHandOff ==
    \A t \in Threads :
        Returning(t) =>
            /\ Cardinality(SlotWords(pc[t].idx, pc[t].ptr)) * 8 = slotSize(pc[t].idx)
            /\ \A x \in SlotWords(pc[t].idx, pc[t].ptr) : mem[x] = NULL

\* C8 witness: a block of more than one word is returned from a page that
\* came with nonzero content, while a caller's data lies on the same page
ZeroFilledAtHandOffWitness ==
    \E t \in Threads : \E b \in held :
        /\ Returning(t)
        /\ poolFill = DATA
        /\ slotSize(pc[t].idx) > 8
        /\ AlignDown(b.ptr, ALLOC_PAGE_SIZE) = pc[t].page
        /\ mem[b.ptr] = DATA

\* C9: for every slot size, every pointer PageAllocator::Allocate returns is
\* a multiple of ALLOC_ALIGNMENT, pages being page-size aligned.
PointerAligned ==
    \A t \in Threads : Returning(t) => pc[t].ptr % ALLOC_ALIGNMENT = 0

\* C9 witness: a pointer is returned that is not the first slot of its page
PointerAlignedWitness ==
    /\ Returning(1)
    /\ pc[1].ptr > pc[1].page + SizeofPage

\* C10 as stated: every pointer PageAllocator::Allocate returns is a multiple
\* of the slot stride.
PointerStrideAligned ==
    \A t \in Threads : Returning(t) => pc[t].ptr % slotAlignment(pc[t].idx) = 0

\* C10, amended: every pointer PageAllocator::Allocate returns lies a whole
\* number of strides behind the end of its page's header, which is the page
\* address plus sizeof(Page) rounded up to ALLOC_ALIGNMENT; the pointer
\* itself need not be a multiple of the stride.
PointerOnStrideGrid ==
    \A t \in Threads :
        Returning(t) =>
            LET first == AlignDown(pc[t].ptr, ALLOC_PAGE_SIZE)
                             + AlignUp(SizeofPage, ALLOC_ALIGNMENT)
            IN /\ pc[t].ptr >= first
               /\ (pc[t].ptr - first) % slotAlignment(pc[t].idx) = 0

\* C10 witness: a pointer is returned that is not a multiple of its stride
PointerOnStrideGridWitness ==
    \E t \in Threads :
        /\ Returning(t)
        /\ pc[t].ptr % slotAlignment(pc[t].idx) # 0

\* C11: when the page pool fails to produce a page or a region, Allocate ends
\* in a process-fatal state: no caller gets a null pointer, the failed result
\* is not used as a page, and the page count and list head stay those of the
\* pages handed out.
FailureIsFatal ==
    /\ \A b \in held : b.ptr # NULL
    /\ \A t \in Threads : pc[t].st = "got" => pc[t].ptr # NULL
    /\ \A a \in Classes :
          /\ nonFull[a] # NULL => nonFull[a] \in pagesOut
          /\ totalPages[a] = Cardinality(LivePages(a))

\* the step thread t takes next inside its call can be taken, or t waits for
\* the mutex of its allocator and the thread holding it can take its step
CanGoOn(t) ==
    CASE pc[t].st = "alloc_wait" ->
             \/ ENABLED AllocLock(t)
             \/ \E u \in Threads \ {t} :
                    /\ allocLock[pc[t].idx] = u
                    /\ ENABLED (AllocTake(u) \/ DeallocPut(u))
      [] pc[t].st = "dealloc_wait" ->
             \/ ENABLED DeallocLock(t)
             \/ \E u \in Threads \ {t} :
                    /\ allocLock[pc[t].idx] = u
                    /\ ENABLED (AllocTake(u) \/ DeallocPut(u))
      [] pc[t].st = "alloc_take" -> ENABLED AllocTake(t)
      [] pc[t].st = "alloc_memset" -> ENABLED AllocMemset(t)
      [] pc[t].st = "dealloc_put" -> ENABLED DeallocPut(t)
      [] OTHER -> TRUE

\* C12: with the threads calling Allocate and Deallocate on the same or
\* different allocators, no state is a deadlock, a call waits only for the
\* mutex of its allocator, and with the mutex handed out fairly every call
\* that was started completes.
EveryCallCompletes ==
    /\ [](\A t \in Threads : CanGoOn(t))
    /\ \A t \in Threads : InCall(t) ~> ~InCall(t)

\* C12 witness: a call waits for the mutex another call holds
EveryCallCompletesWitness ==
    \E t, u \in Threads :
        /\ t # u
        /\ Waiting(t)
        /\ allocLock[pc[t].idx] = u

\* thread t has left the critical section of Allocate with a slot and has not
\* finished clearing it
Clearing(t) == pc[t].st = "alloc_memset" /\ pc[t].ptr # NULL

\* what C13 asks of every step
ClearingStepOK ==
    \A t \in Threads :
        Clearing(t) =>
            /\ pc[t].page \in pagesOut'
            /\ pageOwner'[pc[t].page] = pc[t].idx
            /\ pc'[t] = pc[t] =>
                  /\ \A x \in SlotWords(pc[t].idx, pc[t].ptr) : mem'[x] = mem[x]
                  /\ \A u \in Threads \ {t} :
                        (pc'[u] # pc[u] /\ pc'[u].st \in {"alloc_memset", "dealloc_put"}) =>
                            \/ pc'[u].idx # pc[t].idx
                            \/ pc'[u].ptr + slotSize(pc[t].idx) <= pc[t].ptr
                            \/ pc[t].ptr + slotSize(pc[t].idx) <= pc'[u].ptr

\* C13: from the release of the mutex in Allocate to the end of its memset, no
\* other thread obtains the slot from Allocate, no other thread's Deallocate
\* of a block it holds writes into the slot, and the slot's page is not
\* returned to the page pool.
ClearingIsRaceFree == [][ClearingStepOK]_vars

\* C13 witness: a slot is being cleared while another thread stands inside
\* Deallocate of a slot of the same page
ClearingIsRaceFreeWitness ==
    \E t, u \in Threads :
        /\ Clearing(t)
        /\ pc[u].st = "dealloc_put"
        /\ pc[u].page = pc[t].page

\* the free list of a page as its links give it: from x along next to the
\* null pointer, n entries at most
RECURSIVE Chain(_, _)
Chain(x, n) ==
    IF x = NULL \/ n = 0 THEN <<>> ELSE <<x>> \o Chain(Load(mem, x), n - 1)

\* C14: between operations, for every live page, the free count is the number
\* of slots on the page's free list, these are distinct slots of the page,
\* free and handed-out slots partition the slots of the page, and free < total.
FreeListExact ==
    \A a \in Classes :
        Quiet(a) =>
            \A p \in LivePages(a) :
                LET c == Chain(pageHdr[p].header, pageHdr[p].total + 1)
                    onList == {c[i] : i \in 1..Len(c)}
                IN /\ Len(c) = pageHdr[p].free
                   /\ onList \subseteq SlotsOf(p, a)
                   /\ Cardinality(onList) = Len(c)
                   /\ onList \cap LiveOn(p) = {}
                   /\ onList \cup LiveOn(p) = SlotsOf(p, a)
                   /\ pageHdr[p].free < pageHdr[p].total

\* C15: on every page state reached after InitPage, zeroed by the page pool
\* or not, Page::Allocate returns none exactly when the free count is 0, and
\* otherwise the free-list head, a free slot of the page, with free one less.
TakeSlotByCount ==
    \A p \in pagesOut :
        LET r == Page_Allocate(pageHdr[p], mem)
        IN /\ (r.result = NULL) <=> (pageHdr[p].free = 0)
           /\ r.result # NULL =>
                 /\ r.result = pageHdr[p].header
                 /\ r.result \in SlotsOf(p, pageOwner[p]) \ LiveOn(p)
                 /\ r.hdr.free = pageHdr[p].free - 1

\* the slots that fit behind the aligned header of a page of the given size
SlotsThatFit(size, a) ==
    (size - AlignUp(SizeofPage, ALLOC_ALIGNMENT)) \div slotAlignment(a)

\* the address of slot k of allocator a, relative to the page
SlotAt(a, k) == AlignUp(SizeofPage, ALLOC_ALIGNMENT) + k * slotAlignment(a)

\* the loop of InitPage has linked the slots 0 .. chained-1, each inside the
\* page and behind the header, and on leaving the loop all that fit
ChainedInOrder ==
    phase.mode = "init" =>
        /\ phase.header = SlotAt(phase.idx, 0)
        /\ phase.block = SlotAt(phase.idx, phase.chained - 1)
        /\ phase.block >= SizeofPage
        /\ phase.block + slotAlignment(phase.idx) <= phase.pageSize
        /\ phase.done => phase.chained = SlotsThatFit(phase.pageSize, phase.idx)

\* InitPage on a page of the model: header, free, total and the links of the
\* slots 0 .. n-2, nothing else written
LinksInOrder ==
    \A p \in Pages, a \in Classes :
        LET i == InitPage(pageHdr, mem, p, a)
            n == SlotsThatFit(ALLOC_PAGE_SIZE, a)
            linked == {p + SlotAt(a, k) : k \in 0..(n - 2)}
        IN n >= 1 =>
              /\ i.hdrs[p].header = p + SlotAt(a, 0)
              /\ i.hdrs[p].free = n /\ i.hdrs[p].total = n
              /\ \A k \in 0..(n - 2) : i.mem[p + SlotAt(a, k)] = p + SlotAt(a, k + 1)
              /\ \A x \in DOMAIN mem \ linked : i.mem[x] = mem[x]

\* C16 as stated: for every page size and stride with a slot per page,
\* InitPage chains the slots header offset + k * stride, k in 0..total-1, all
\* that fit in the page, and their number is the value stored in free and
\* total.
InitPageChainsAll ==
    /\ ChainedInOrder
    /\ LinksInOrder
    /\ (phase.mode = "init" /\ phase.done) => phase.chained = phase.free

\* C16, amended: the same, the stored count being the chained count when
\* fewer than 65536 slots fit in the page; free and total are uint16_t and hold
\* the count modulo 65536.
InitPageChainsWhatFits ==
    /\ ChainedInOrder
    /\ LinksInOrder
    /\ (phase.mode = "init" /\ phase.done) =>
           /\ phase.free = phase.chained % Uint16
           /\ phase.chained < Uint16 => phase.chained = phase.free

\* C16 witness: InitPage has chained a page of nearly 65536 slots
InitPageChainsWhatFitsWitness ==
    /\ phase.mode = "init" /\ phase.done
    /\ phase.pageSize = HugePageSize
    /\ phase.chained < Uint16
    /\ phase.chained > Uint16 \div 2

\* some page of allocator a has a free slot
HasSpare(a) == \E p \in LivePages(a) : pageHdr[p].free > 0

\* what C17 asks of every step
AcquireStepOK ==
    /\ \A t \in Threads :
          (pc[t].st = "idle" /\ pc'[t].st = "alloc_take") =>
              IF HasSpare(pc'[t].idx)
              THEN /\ pagesOut' = pagesOut
                   /\ nonFull'[pc'[t].idx] = nonFull[pc'[t].idx]
              ELSE /\ Cardinality(pagesOut') = Cardinality(pagesOut) + 1
                   /\ nonFull'[pc'[t].idx] \in pagesOut' \ pagesOut
    /\ \A t \in Threads :
          (pc[t].st = "alloc_take" /\ pc'[t].st = "alloc_memset") =>
              /\ pc'[t].page = nonFull[pc[t].idx]
              /\ pc'[t].ptr = pageHdr[nonFull[pc[t].idx]].header
              /\ pageHdr[nonFull[pc[t].idx]].free > 0
              /\ pagesOut' = pagesOut
    /\ (pagesOut' \ pagesOut # {}) =>
          \E t \in Threads :
              /\ pc[t].st = "idle" /\ pc'[t].st = "alloc_take"
              /\ ~HasSpare(pc'[t].idx)

\* C17: Allocate gets a page from the page pool only when no live page of its
\* allocator has a free slot; when one has, the slot comes from the head of
\* the nonFull list and the page pool is not called.
PageOnlyWhenNoSpare == [][AcquireStepOK]_vars

\* C17 witness: an Allocate that found a page with a free slot stands before
\* taking it, while the allocator has a full page as well
PageOnlyWhenNoSpareWitness ==
    \E t \in Threads :
        /\ pc[t].st = "alloc_take"
        /\ pageHdr[nonFull[pc[t].idx]].free < pageHdr[nonFull[pc[t].idx]].total
        /\ \E q \in LivePages(pc[t].idx) : pageHdr[q].free = 0

\* C18: after any sequence of Allocate and Deallocate calls on an allocator,
\* totalPages is the number of pages it got from the page pool and has not
\* returned, which are the pages on the nonFull list and the full pages; it
\* never goes below zero.
TotalPagesCountsLive ==
    \A a \in Classes :
        /\ totalPages[a] >= 0
        /\ Quiet(a) =>
              /\ totalPages[a] = Cardinality(LivePages(a))
              /\ totalPages[a] =
                     Cardinality(ListPages(a))
                       + Cardinality({p \in LivePages(a) : pageHdr[p].free = 0})

\* C18 witness: between calls, an allocator with a listed and a full page
\* that has returned a page before
TotalPagesCountsLiveWitness ==
    \E a \in Classes :
        /\ pc[1].st = "idle"
        /\ totalPages[a] = 2
        /\ ListPages(a) # {}
        /\ \E p \in LivePages(a) : pageHdr[p].free = 0
        /\ \E p \in Pages \ pagesOut : \E q \in pagesOut : p < q

\* the list from page p along next, n entries at most
RECURSIVE ListWalk(_, _)
ListWalk(p, n) ==
    IF p = NULL \/ n = 0 THEN <<>> ELSE <<p>> \o ListWalk(pageHdr[p].next, n - 1)

\* C19: after any sequence of Allocate and Deallocate calls the nonFull list
\* is a well-formed doubly linked list: the head's prev is null, the prev of
\* a listed page's successor is that page, no page is listed twice and the
\* list ends, a live page off the list has null links, and neither the head
\* nor a link of a live page refers to a page given back to the page pool.
ListWellFormed ==
    \A a \in Classes :
        Quiet(a) =>
            LET w == ListWalk(nonFull[a], MaxPages + 1)
                listed == {w[i] : i \in 1..Len(w)}
            IN /\ listed \subseteq LivePages(a)
               /\ Len(w) = Cardinality(listed)
               /\ nonFull[a] # NULL => pageHdr[nonFull[a]].prev = NULL
               /\ \A i \in 1..Len(w) :
                     /\ i < Len(w) => pageHdr[w[i + 1]].prev = w[i]
                     /\ i = Len(w) => pageHdr[w[i]].next = NULL
               /\ \A p \in LivePages(a) \ listed :
                     pageHdr[p].prev = NULL /\ pageHdr[p].next = NULL
               /\ \A p \in LivePages(a) :
                     /\ pageHdr[p].prev \in LivePages(a) \cup {NULL}
                     /\ pageHdr[p].next \in LivePages(a) \cup {NULL}

\* C19 witness: between calls, a list of two pages, one of them with a block
\* a caller holds, beside a full page
ListWellFormedWitness ==
    \E a \in Classes :
        /\ pc[1].st = "idle"
        /\ Cardinality(ListPages(a)) >= 2
        /\ \E p \in LivePages(a) : pageHdr[p].free = 0
        /\ \E b \in held : AlignDown(b.ptr, ALLOC_PAGE_SIZE) \in ListPages(a)

\* C20: the check of DestroyPage, free == total, holds at every call of
\* DestroyPage: Destroy(), called between Allocate and Deallocate calls,
\* releases every page on the nonFull list and the check never fails.
DestroyCheckHolds ==
    /\ ~Fatal
    /\ \A t \in Threads :
          (pc[t].st = "destroy" /\ nonFull[pc[t].idx] # NULL) =>
              pageHdr[nonFull[pc[t].idx]].free = pageHdr[nonFull[pc[t].idx]].total

====
